---- MODULE Spec2Model ----
(***************************************************************************)
(* Model of api/validate-receipt.js: the serverless handler that checks an *)
(* App Store receipt against Apple's verifyReceipt service (production,    *)
(* then sandbox) and answers whether the subscription is active.           *)
(*                                                                         *)
(* One behaviour of the model is one invocation of handler(req, res).      *)
(* The handler is cut at its await points and at the numbered blocks of    *)
(* the synchronous tail; pc names the block that runs next.                *)
(***************************************************************************)
EXTENDS Integers, Naturals, Sequences, FiniteSets, TLC

VARIABLES
    pc,                   \* block of the handler that runs next
    req,                  \* the incoming request: method and body
    res,                  \* the response object: status code, header, body, sends
    calls,                \* urls passed to fetch, in the order of the calls
    results,              \* what each completed fetch produced, in the same order
    fetched,              \* what the last completed fetch did
    response,             \* let response   (line 78)
    environment,          \* let environment (line 79)
    isValidSubscription,  \* line 158
    subscriptionInfo,     \* line 159
    now,                  \* the clock: what Date.now() returns at line 182
    error                 \* the exception bound by the outer catch (line 282)

vars == <<pc, req, res, calls, results, fetched, response, environment,
          isValidSubscription, subscriptionInfo, now, error>>

----------------------------------------------------------------------------
(* Bound of the model: the number of records an upstream body carries in   *)
(* latest_receipt_info, receipt.in_app and pending_renewal_info together.  *)
MaxRecords == 2

----------------------------------------------------------------------------
(* Literals of the source.                                                 *)
BUNDLE_ID == "com.elevenstoic.app"
PRODUCT_ID == "com.elevenstoic.monthly"
PRODUCTION_URL == "https://buy.itunes.apple.com/verifyReceipt"
SANDBOX_URL == "https://sandbox.itunes.apple.com/verifyReceipt"
StatusSandboxReceipt == 21007
StatusExpired == 21006
gracePeriod == 5 * 60 * 1000

Undefined == "<undefined>"
Null == [isNull |-> TRUE]
IsNull(v) == "isNull" \in DOMAIN v

----------------------------------------------------------------------------
(* Inputs: the request.                                                    *)
Methods == {"POST", "GET", "OPTIONS"}
ReceiptInputs == {Undefined, "", "MIIbase64receipt"}
BundleInputs == {Undefined, BUNDLE_ID, "com.other.app"}
NoBody == [hasBody |-> FALSE, receiptData |-> Undefined, bundleId |-> Undefined]

Bodies ==
    {NoBody} \cup
    {[hasBody |-> TRUE, receiptData |-> r, bundleId |-> b] :
        r \in ReceiptInputs, b \in BundleInputs}

Requests ==
    {[method |-> "POST", body |-> b] : b \in Bodies} \cup
    {[method |-> m, body |-> NoBody] : m \in Methods \ {"POST"}}

(* !receiptData *)
Falsy(v) == v \in {Undefined, ""}

----------------------------------------------------------------------------
(* Inputs: what Apple answers.  Millisecond fields are decimal strings,    *)
(* kept as sequences of digits; "99999" is below "100001" as a number and  *)
(* above it as a string.                                                   *)
Statuses == {0, StatusExpired, StatusSandboxReceipt, 21010}
ExpiresInputs == {<<9, 9, 9, 9, 9>>, <<1, 0, 0, 0, 0, 1>>}
PurchaseInputs == {<<9>>, <<1, 0>>}
Nows == {400000, 400001}

LatestKinds ==
    {[product_id |-> PRODUCT_ID, expires_date_ms |-> e] : e \in ExpiresInputs}
    \cup {[product_id |-> "com.elevenstoic.yearly",
           expires_date_ms |-> <<1, 0, 0, 0, 0, 1>>]}

InAppKinds ==
    {[product_id |-> PRODUCT_ID, purchase_date_ms |-> p] : p \in PurchaseInputs}
    \cup {[product_id |-> "com.elevenstoic.yearly", purchase_date_ms |-> <<1, 0>>]}

PendingKinds ==
    {[product_id |-> PRODUCT_ID, auto_renew_status |-> s] : s \in {"0", "1"}}
    \cup {[product_id |-> "com.elevenstoic.yearly", auto_renew_status |-> "1"]}

SeqsUpTo(S, n) == UNION {[1..k -> S] : k \in 0..n}

(* The records of a list, each with its own transaction id. *)
Transactions(kinds) ==
    [i \in 1..Len(kinds) |->
        [product_id |-> kinds[i].product_id,
         expires_date_ms |-> kinds[i].expires_date_ms,
         transaction_id |-> i,
         is_trial_period |-> "true",
         is_in_intro_offer_period |-> "false"]]

Purchases(kinds) ==
    [i \in 1..Len(kinds) |->
        [product_id |-> kinds[i].product_id,
         purchase_date_ms |-> kinds[i].purchase_date_ms,
         transaction_id |-> 100 + i]]

(* A decoded JSON object.  An absent property carries has... = FALSE and   *)
(* an empty value; in_app lives inside receipt.                            *)
Presence(list) == IF list = <<>> THEN BOOLEAN ELSE {TRUE}

Receipts(purchases) ==
    {[hasReceipt |-> TRUE, bundle_id |-> b, hasInApp |-> hi] :
        b \in {BUNDLE_ID, "com.other.app"}, hi \in Presence(purchases)}
    \cup (IF purchases = <<>>
          THEN {[hasReceipt |-> FALSE, bundle_id |-> Undefined, hasInApp |-> FALSE]}
          ELSE {})

(* Apple sends receipt fields with status 0 and with 21006 only; a body    *)
(* with another status is the bare status.                                 *)
ReceiptResponses ==
    UNION {UNION {UNION {
        {[status |-> s,
          hasReceipt |-> r.hasReceipt, bundle_id |-> r.bundle_id,
          hasInApp |-> r.hasInApp, in_app |-> Purchases(ia),
          hasLatest |-> hl, latest_receipt_info |-> Transactions(l),
          hasPending |-> hp, pending_renewal_info |-> p] :
            s \in {0, StatusExpired}, r \in Receipts(ia),
            hl \in Presence(l), hp \in Presence(p)}
        : p \in SeqsUpTo(PendingKinds, MaxRecords - Len(l) - Len(ia))}
        : ia \in SeqsUpTo(InAppKinds, MaxRecords - Len(l))}
        : l \in SeqsUpTo(LatestKinds, MaxRecords)}

BareResponses ==
    {[status |-> s,
      hasReceipt |-> FALSE, bundle_id |-> Undefined,
      hasInApp |-> FALSE, in_app |-> <<>>,
      hasLatest |-> FALSE, latest_receipt_info |-> <<>>,
      hasPending |-> FALSE, pending_renewal_info |-> <<>>] :
        s \in Statuses \ {0, StatusExpired}}

AppleResponses == ReceiptResponses \cup BareResponses

(* What one fetch can do: time out, fail to connect, answer a non-2xx      *)
(* status, answer a body that is not JSON, answer the JSON value null,     *)
(* answer a JSON object.                                                   *)
FetchFailures ==
    {[kind |-> k] : k \in {"timeout", "unreachable", "httpError", "badJson", "jsonNull"}}
FetchBodies == {[kind |-> "jsonObject", body |-> b] : b \in AppleResponses}
FetchOutcomes == FetchFailures \cup FetchBodies

----------------------------------------------------------------------------
(* validateWithApple (lines 47-76): turns what fetch did into a returned   *)
(* value or a thrown error.  An error is its name and its message.         *)
AbortError == [name |-> "AbortError", message |-> "This operation was aborted"]
FetchFailed == [name |-> "TypeError", message |-> "fetch failed"]
HttpError == [name |-> "Error", message |-> "HTTP 503: Service Unavailable"]
JsonError == [name |-> "SyntaxError", message |-> "Unexpected token < in JSON at position 0"]
NullStatus == [name |-> "TypeError", message |-> "Cannot read properties of null (reading 'status')"]
UndefinedStatus == [name |-> "TypeError", message |-> "Cannot read properties of undefined (reading 'status')"]
NoRequestBody == [name |-> "TypeError", message |-> "Cannot destructure property 'receiptData' of 'req.body' as it is undefined."]
NoError == [name |-> "", message |-> ""]

(* error.message?.includes('fetch'), over the messages above *)
IncludesFetch(message) == message \in {"fetch failed"}

UndefinedValue == [kind |-> "undefined"]

validateWithApple(outcome) ==
    CASE outcome.kind = "timeout" -> [threw |-> TRUE, error |-> AbortError, value |-> UndefinedValue]
      [] outcome.kind = "unreachable" -> [threw |-> TRUE, error |-> FetchFailed, value |-> UndefinedValue]
      [] outcome.kind = "httpError" -> [threw |-> TRUE, error |-> HttpError, value |-> UndefinedValue]
      [] outcome.kind = "badJson" -> [threw |-> TRUE, error |-> JsonError, value |-> UndefinedValue]
      [] outcome.kind = "jsonNull" -> [threw |-> FALSE, error |-> NoError, value |-> [kind |-> "null"]]
      [] outcome.kind = "jsonObject" ->
            [threw |-> FALSE, error |-> NoError,
             value |-> [kind |-> "object", body |-> outcome.body]]

(* What the model remembers of a completed fetch. *)
Summary(url, outcome) ==
    [url |-> url, kind |-> outcome.kind,
     status |-> IF outcome.kind = "jsonObject" THEN outcome.body.status ELSE -1]

----------------------------------------------------------------------------
(* The response object.  res.status(n) sets the code, res.json(b) and      *)
(* res.end() send; a fresh response has code 200.                          *)
EmptyBody == [ended |-> TRUE]
FreshRes == [sent |-> 0, statusCode |-> 200, cacheControl |-> FALSE, body |-> EmptyBody]

Json(r, code, body) ==
    [r EXCEPT !.sent = @ + 1, !.statusCode = code, !.body = body]

----------------------------------------------------------------------------
(* parseInt of a decimal string: the digits, most significant first. *)
parseInt(digits) ==
    LET value[n \in 0..Len(digits)] ==
            IF n = 0 THEN 0 ELSE 10 * value[n - 1] + digits[n]
    IN  value[Len(digits)]

(* Array.prototype.filter on product_id === 'com.elevenstoic.monthly' *)
isProduct(record) == record.product_id = PRODUCT_ID
filterProduct(list) == SelectSeq(list, isProduct)

(* a < b as strings, the order a comparison of the raw fields would use *)
stringLess(a, b) ==
    \E n \in 1..Len(b) :
        /\ \A k \in 1..(n - 1) : k <= Len(a) /\ a[k] = b[k]
        /\ (n > Len(a) \/ (n - 1 < Len(a) /\ a[n] < b[n]))

(* Variant of compareExpires: the fields compared without parseInt *)
compareExpires_asStrings(a, b) ==
    IF stringLess(a.expires_date_ms, b.expires_date_ms) THEN 1
    ELSE IF stringLess(b.expires_date_ms, a.expires_date_ms) THEN -1
    ELSE 0

(* The comparators handed to sort (lines 171 and 214): negative puts a first. *)
compareExpires(a, b) == parseInt(b.expires_date_ms) - parseInt(a.expires_date_ms)
comparePurchase(a, b) == parseInt(b.purchase_date_ms) - parseInt(a.purchase_date_ms)

(* Array.prototype.sort is stable: element i comes after the elements the  *)
(* comparator puts before it and after the earlier elements it ties with.  *)
sortByExpires(list) ==
    LET before(i) == {j \in 1..Len(list) :
                        \/ compareExpires(list[j], list[i]) < 0
                        \/ (compareExpires(list[j], list[i]) = 0 /\ j < i)}
    IN  [p \in 1..Len(list) |->
            list[CHOOSE i \in 1..Len(list) : Cardinality(before(i)) = p - 1]]

sortByPurchase(list) ==
    LET before(i) == {j \in 1..Len(list) :
                        \/ comparePurchase(list[j], list[i]) < 0
                        \/ (comparePurchase(list[j], list[i]) = 0 /\ j < i)}
    IN  [p \in 1..Len(list) |->
            list[CHOOSE i \in 1..Len(list) : Cardinality(before(i)) = p - 1]]

(* Array.prototype.find on product_id: the first match, or undefined. *)
findProduct(list) ==
    LET matches == {i \in 1..Len(list) : isProduct(list[i])}
    IN  IF matches = {}
        THEN [found |-> FALSE, product_id |-> Undefined, auto_renew_status |-> Undefined]
        ELSE LET first == CHOOSE i \in matches : \A j \in matches : i <= j
             IN  [found |-> TRUE, product_id |-> list[first].product_id,
                  auto_renew_status |-> list[first].auto_renew_status]

----------------------------------------------------------------------------
(* The four detection blocks.  Each takes the pair                         *)
(* [isValidSubscription, subscriptionInfo] it finds and gives the pair it  *)
(* leaves.                                                                 *)
latestTransaction(body) == Head(sortByExpires(filterProduct(body.latest_receipt_info)))

(* lines 162 and 169: there is a transaction of the product to look at *)
hasRelevantTransactions(body) ==
    /\ body.hasLatest
    /\ Len(body.latest_receipt_info) > 0
    /\ Len(filterProduct(body.latest_receipt_info)) > 0

(* Method 1, lines 161-202; currentDate is what Date.now() returned *)
checkLatestReceiptInfo(body, env, currentDate, found) ==
    IF hasRelevantTransactions(body)
    THEN LET latest == latestTransaction(body)
             expirationDate == parseInt(latest.expires_date_ms)
         IN  IF expirationDate > (currentDate - gracePeriod)
             THEN [isValidSubscription |-> TRUE,
                   subscriptionInfo |->
                      [productId |-> latest.product_id,
                       expiresDate |-> expirationDate,
                       transactionId |-> latest.transaction_id,
                       environment |-> env,
                       isTrialPeriod |-> (latest.is_trial_period = "true"),
                       isIntroOfferPeriod |-> (latest.is_in_intro_offer_period = "true")]]
             ELSE found
    ELSE found

(* Variant of checkInApp: the flag is raised, subscriptionInfo is not set *)
checkInApp_noInfo(body, env, found) ==
    IF ~found.isValidSubscription /\ body.hasReceipt /\ body.hasInApp
          /\ Len(filterProduct(body.in_app)) > 0
    THEN [isValidSubscription |-> TRUE, subscriptionInfo |-> found.subscriptionInfo]
    ELSE found

(* Method 2, lines 204-226 *)
checkInApp(body, env, found) ==
    IF ~found.isValidSubscription /\ body.hasReceipt /\ body.hasInApp
    THEN LET relevantPurchases == filterProduct(body.in_app)
         IN  IF Len(relevantPurchases) > 0
             THEN LET latestPurchase == Head(sortByPurchase(relevantPurchases))
                  IN  [isValidSubscription |-> TRUE,
                       subscriptionInfo |->
                          [productId |-> latestPurchase.product_id,
                           transactionId |-> latestPurchase.transaction_id,
                           environment |-> env,
                           purchaseDate |-> parseInt(latestPurchase.purchase_date_ms)]]
             ELSE found
    ELSE found

(* Method 3, lines 228-246 *)
checkPendingRenewal(body, env, found) ==
    IF ~found.isValidSubscription /\ body.hasPending /\ env = "sandbox"
    THEN LET pendingRenewal == findProduct(body.pending_renewal_info)
         IN  IF pendingRenewal.found /\ pendingRenewal.auto_renew_status = "1"
             THEN [isValidSubscription |-> TRUE,
                   subscriptionInfo |->
                      [productId |-> pendingRenewal.product_id,
                       isPending |-> TRUE,
                       environment |-> env,
                       autoRenewStatus |-> pendingRenewal.auto_renew_status]]
             ELSE found
    ELSE found

(* response.receipt?.bundle_id === 'com.elevenstoic.app' *)
bundleMatches(body) == body.hasReceipt /\ body.bundle_id = BUNDLE_ID

(* Variant of sandboxFallback: the environment is not looked at *)
sandboxFallback_anyEnvironment(body, env, found) ==
    IF ~found.isValidSubscription /\ bundleMatches(body)
    THEN [isValidSubscription |-> TRUE,
          subscriptionInfo |->
             [productId |-> PRODUCT_ID, environment |-> env, fallback |-> TRUE]]
    ELSE found

(* Sandbox fallback, lines 248-258 *)
sandboxFallback(body, env, found) ==
    IF ~found.isValidSubscription /\ env = "sandbox" /\ bundleMatches(body)
    THEN [isValidSubscription |-> TRUE,
          subscriptionInfo |->
             [productId |-> PRODUCT_ID, environment |-> env, fallback |-> TRUE]]
    ELSE found

----------------------------------------------------------------------------
(* Status classification, lines 112-146. *)
statusMeaning(status) ==
    CASE status = 21000 -> "The App Store could not read the JSON object you provided."
      [] status = 21002 -> "The data in the receipt-data property was malformed or missing."
      [] status = 21003 -> "The receipt could not be authenticated."
      [] status = 21004 -> "The shared secret you provided does not match the shared secret on file for your account."
      [] status = 21005 -> "The receipt server is not currently available."
      [] status = 21006 -> "This receipt is valid but the subscription has expired."
      [] status = 21007 -> "This receipt is from the sandbox environment, but it was sent to the production environment for verification."
      [] status = 21008 -> "This receipt is from the production environment, but it was sent to the sandbox environment for verification."
      [] status = 21010 -> "This receipt could not be authorized. Treat this the same as if a purchase was never made."
      [] OTHER -> "Unknown error"

(* Variant of statusVerdict: 21006 gets the generic shape *)
statusVerdict_generic(status) ==
    [isValid |-> FALSE,
     error |-> "Receipt validation failed: " \o statusMeaning(status),
     status |-> status]

statusVerdict(status) ==
    IF status = StatusExpired
    THEN [isValid |-> FALSE, error |-> "Subscription has expired",
          status |-> status, expired |-> TRUE]
    ELSE [isValid |-> FALSE,
          error |-> "Receipt validation failed: " \o statusMeaning(status),
          status |-> status]

(* Variant of isSandboxReceipt: every failure status is sent to the sandbox *)
isSandboxReceipt_anyFailure(body) == body.status # 0

(* line 88 *)
isSandboxReceipt(body) == body.status = StatusSandboxReceipt

(* Variant of afterBothFailed: the return is missing, the handler runs on *)
afterBothFailed_noReturn == "classify"

(* line 103: the inner catch returns, the handler is over *)
afterBothFailed == "done"

(* The final body, lines 267-280. *)
debugInfo(body) ==
    [hasLatestReceiptInfo |-> (body.hasLatest /\ Len(body.latest_receipt_info) > 0),
     hasInApp |-> (body.hasReceipt /\ body.hasInApp /\ Len(body.in_app) > 0),
     hasPendingRenewal |-> (body.hasPending /\ Len(body.pending_renewal_info) > 0)]

finalVerdict(body, env, valid, info) ==
    IF env = "sandbox"
    THEN [isValid |-> valid, environment |-> env, subscriptionInfo |-> info,
          timestamp |-> "toISOString", debug |-> debugInfo(body)]
    ELSE [isValid |-> valid, environment |-> env, subscriptionInfo |-> info,
          timestamp |-> "toISOString"]

(* The outer catch, lines 282-304: the status code and the body. *)
catchResponse(e) ==
    IF e.name = "AbortError"
    THEN [statusCode |-> 408,
          body |-> [isValid |-> FALSE,
                    error |-> "Request timeout - Apple servers did not respond in time"]]
    ELSE IF IncludesFetch(e.message)
    THEN [statusCode |-> 502,
          body |-> [isValid |-> FALSE, error |-> "Unable to connect to Apple servers"]]
    ELSE [statusCode |-> 500,
          body |-> [isValid |-> FALSE, error |-> "Internal server error during validation"]]

----------------------------------------------------------------------------
Init ==
    /\ pc = "start"
    /\ req \in Requests
    /\ res = FreshRes
    /\ calls = <<>>
    /\ results = <<>>
    /\ fetched = [kind |-> "none"]
    /\ response = UndefinedValue
    /\ environment = Undefined
    /\ isValidSubscription = FALSE
    /\ subscriptionInfo = Null
    /\ now \in Nows
    /\ error = NoError

(* lines 9-12 *)
Preflight ==
    /\ pc = "start"
    /\ req.method = "OPTIONS"
    /\ res' = [res EXCEPT !.sent = @ + 1, !.statusCode = 200]
    /\ pc' = "done"
    /\ UNCHANGED <<req, calls, results, fetched, response, environment,
                   isValidSubscription, subscriptionInfo, now, error>>

(* lines 15-17 *)
MethodNotAllowed ==
    /\ pc = "start"
    /\ req.method \notin {"OPTIONS", "POST"}
    /\ res' = Json(res, 405, [error |-> "Method not allowed"])
    /\ pc' = "done"
    /\ UNCHANGED <<req, calls, results, fetched, response, environment,
                   isValidSubscription, subscriptionInfo, now, error>>

(* lines 19-35 and, when the input passes, on to the fetch of line 84 *)
ValidateInput ==
    /\ pc = "start"
    /\ req.method = "POST"
    /\ IF ~req.body.hasBody
       THEN /\ error' = NoRequestBody
            /\ pc' = "catch"
            /\ UNCHANGED <<res, calls>>
       ELSE IF Falsy(req.body.receiptData)
       THEN /\ res' = Json(res, 400, [isValid |-> FALSE, error |-> "Receipt data is required"])
            /\ pc' = "done"
            /\ UNCHANGED <<error, calls>>
       ELSE IF req.body.bundleId # BUNDLE_ID
       THEN /\ res' = Json(res, 400, [isValid |-> FALSE, error |-> "Invalid bundle ID"])
            /\ pc' = "done"
            /\ UNCHANGED <<error, calls>>
       ELSE /\ calls' = Append(calls, PRODUCTION_URL)
            /\ pc' = "awaitProduction"
            /\ UNCHANGED <<res, error>>
    /\ UNCHANGED <<req, results, fetched, response, environment,
                   isValidSubscription, subscriptionInfo, now>>

(* lines 84-92 when the production call returns, lines 93-99 when it or    *)
(* the read of response.status throws                                      *)
ProductionReturns ==
    /\ pc = "awaitProduction"
    /\ (fetched' \in FetchFailures \/ fetched' \in FetchBodies)
    /\ LET r == validateWithApple(fetched') IN
         /\ results' = Append(results, Summary(PRODUCTION_URL, fetched'))
         /\ IF r.threw
            THEN /\ calls' = Append(calls, SANDBOX_URL)
                 /\ pc' = "awaitFallback"
                 /\ UNCHANGED <<response, environment>>
            ELSE /\ response' = r.value
                 /\ environment' = "production"
                 /\ IF r.value.kind = "null"
                    THEN /\ calls' = Append(calls, SANDBOX_URL)
                         /\ pc' = "awaitFallback"
                    ELSE IF isSandboxReceipt(r.value.body)
                    THEN /\ calls' = Append(calls, SANDBOX_URL)
                         /\ pc' = "awaitReroute"
                    ELSE /\ pc' = "classify"
                         /\ UNCHANGED calls
    /\ UNCHANGED <<req, res, isValidSubscription, subscriptionInfo, now, error>>

(* lines 90-91 when the sandbox call of the 21007 branch returns; it sits  *)
(* inside the try of line 82, so its error lands in the catch of line 93   *)
RerouteReturns ==
    /\ pc = "awaitReroute"
    /\ (fetched' \in FetchFailures \/ fetched' \in FetchBodies)
    /\ LET r == validateWithApple(fetched') IN
         /\ results' = Append(results, Summary(SANDBOX_URL, fetched'))
         /\ IF r.threw
            THEN /\ calls' = Append(calls, SANDBOX_URL)
                 /\ pc' = "awaitFallback"
                 /\ UNCHANGED <<response, environment>>
            ELSE /\ response' = r.value
                 /\ environment' = "sandbox"
                 /\ pc' = "classify"
                 /\ UNCHANGED calls
    /\ UNCHANGED <<req, res, isValidSubscription, subscriptionInfo, now, error>>

(* lines 98-107 *)
FallbackReturns ==
    /\ pc = "awaitFallback"
    /\ (fetched' \in FetchFailures \/ fetched' \in FetchBodies)
    /\ LET r == validateWithApple(fetched') IN
         /\ results' = Append(results, Summary(SANDBOX_URL, fetched'))
         /\ IF r.threw
            THEN /\ res' = Json(res, 500, [isValid |-> FALSE,
                                           error |-> "Receipt validation failed with Apple"])
                 /\ pc' = afterBothFailed
                 /\ UNCHANGED <<response, environment>>
            ELSE /\ response' = r.value
                 /\ environment' = "sandbox"
                 /\ pc' = "classify"
                 /\ UNCHANGED res
    /\ UNCHANGED <<req, calls, isValidSubscription, subscriptionInfo, now, error>>

(* lines 110-146 *)
Classify ==
    /\ pc = "classify"
    /\ IF response.kind = "undefined"
       THEN /\ error' = UndefinedStatus
            /\ pc' = "catch"
            /\ UNCHANGED res
       ELSE IF response.kind = "null"
       THEN /\ error' = NullStatus
            /\ pc' = "catch"
            /\ UNCHANGED res
       ELSE IF response.body.status # 0
       THEN /\ res' = Json(res, res.statusCode, statusVerdict(response.body.status))
            /\ pc' = "done"
            /\ UNCHANGED error
       ELSE /\ pc' = "checkBundle"
            /\ UNCHANGED <<res, error>>
    /\ UNCHANGED <<req, calls, results, fetched, response, environment,
                   isValidSubscription, subscriptionInfo, now>>

(* lines 148-159 *)
CheckBundle ==
    /\ pc = "checkBundle"
    /\ IF ~bundleMatches(response.body)
       THEN /\ res' = Json(res, res.statusCode, [isValid |-> FALSE, error |-> "Bundle ID mismatch"])
            /\ pc' = "done"
       ELSE /\ pc' = "method1"
            /\ UNCHANGED res
    /\ isValidSubscription' = FALSE
    /\ subscriptionInfo' = Null
    /\ UNCHANGED <<req, calls, results, fetched, response, environment, now, error>>

(* lines 161-202 *)
Method1 ==
    /\ pc = "method1"
    /\ LET found == checkLatestReceiptInfo(response.body, environment, now,
                        [isValidSubscription |-> isValidSubscription,
                         subscriptionInfo |-> subscriptionInfo])
       IN  /\ isValidSubscription' = found.isValidSubscription
           /\ subscriptionInfo' = found.subscriptionInfo
    /\ pc' = "method2"
    /\ UNCHANGED <<req, res, calls, results, fetched, response, environment, now, error>>

(* lines 204-226 *)
Method2 ==
    /\ pc = "method2"
    /\ LET found == checkInApp(response.body, environment,
                        [isValidSubscription |-> isValidSubscription,
                         subscriptionInfo |-> subscriptionInfo])
       IN  /\ isValidSubscription' = found.isValidSubscription
           /\ subscriptionInfo' = found.subscriptionInfo
    /\ pc' = "method3"
    /\ UNCHANGED <<req, res, calls, results, fetched, response, environment, now, error>>

(* lines 228-246 *)
Method3 ==
    /\ pc = "method3"
    /\ LET found == checkPendingRenewal(response.body, environment,
                        [isValidSubscription |-> isValidSubscription,
                         subscriptionInfo |-> subscriptionInfo])
       IN  /\ isValidSubscription' = found.isValidSubscription
           /\ subscriptionInfo' = found.subscriptionInfo
    /\ pc' = "fallback"
    /\ UNCHANGED <<req, res, calls, results, fetched, response, environment, now, error>>

(* lines 248-258 *)
SandboxFallback ==
    /\ pc = "fallback"
    /\ LET found == sandboxFallback(response.body, environment,
                        [isValidSubscription |-> isValidSubscription,
                         subscriptionInfo |-> subscriptionInfo])
       IN  /\ isValidSubscription' = found.isValidSubscription
           /\ subscriptionInfo' = found.subscriptionInfo
    /\ pc' = "respond"
    /\ UNCHANGED <<req, res, calls, results, fetched, response, environment, now, error>>

(* lines 260-280 *)
Respond ==
    /\ pc = "respond"
    /\ res' = [Json(res, res.statusCode,
                    finalVerdict(response.body, environment,
                                 isValidSubscription, subscriptionInfo))
               EXCEPT !.cacheControl = isValidSubscription]
    /\ pc' = "done"
    /\ UNCHANGED <<req, calls, results, fetched, response, environment,
                   isValidSubscription, subscriptionInfo, now, error>>

(* lines 282-304 *)
OuterCatch ==
    /\ pc = "catch"
    /\ res' = Json(res, catchResponse(error).statusCode, catchResponse(error).body)
    /\ pc' = "done"
    /\ UNCHANGED <<req, calls, results, fetched, response, environment,
                   isValidSubscription, subscriptionInfo, now, error>>

Next ==
    \/ Preflight
    \/ MethodNotAllowed
    \/ ValidateInput
    \/ ProductionReturns
    \/ RerouteReturns
    \/ FallbackReturns
    \/ Classify
    \/ CheckBundle
    \/ Method1
    \/ Method2
    \/ Method3
    \/ SandboxFallback
    \/ Respond
    \/ OuterCatch

Spec == Init /\ [][Next]_vars

(* The runtime runs the handler to its end: every await settles (fetch is  *)
(* aborted after 10 seconds, line 49) and the synchronous blocks run on.   *)
FairSpec == Spec /\ WF_vars(Next)

----------------------------------------------------------------------------
(* Vocabulary of the properties.                                           *)
Done == pc = "done"
IsVerdict(body) == "isValid" \in DOMAIN body
Failed(result) == result.kind # "jsonObject"
TimedOut(result) == result.kind = "timeout"

(* the handler got to line 267: the body carries environment *)
FinalVerdict == Done /\ "environment" \in DOMAIN res.body

(* the upstream result the handler adopted, when there is one *)
Adopted == results # <<>> /\ ~Failed(results[Len(results)]) /\ response.kind = "object"

(* which detection block built a subscriptionInfo *)
Kind(info) ==
    CASE "expiresDate" \in DOMAIN info -> "activeSubscription"
      [] "purchaseDate" \in DOMAIN info -> "pastPurchase"
      [] "isPending" \in DOMAIN info -> "pendingRenewal"
      [] "fallback" \in DOMAIN info -> "sandboxFallback"
      [] OTHER -> "none"

(* what the detection methods are to find, said over the upstream body *)
TargetTransactions(body) ==
    {i \in 1..Len(body.latest_receipt_info) :
        body.latest_receipt_info[i].product_id = PRODUCT_ID}

ActiveTransaction(body) ==
    /\ body.hasLatest
    /\ \E i \in TargetTransactions(body) :
          parseInt(body.latest_receipt_info[i].expires_date_ms) > now - gracePeriod

TargetPurchase(body) ==
    /\ body.hasReceipt /\ body.hasInApp
    /\ \E i \in 1..Len(body.in_app) : body.in_app[i].product_id = PRODUCT_ID

ActiveRenewal(body) ==
    /\ body.hasPending
    /\ \E i \in 1..Len(body.pending_renewal_info) :
          /\ body.pending_renewal_info[i].product_id = PRODUCT_ID
          /\ body.pending_renewal_info[i].auto_renew_status = "1"

(* status 0 and exactly two transactions of the product, T1 < T2 *)
TwoTransactions ==
    /\ Done /\ Adopted
    /\ response.body.status = 0
    /\ response.body.hasLatest
    /\ Cardinality(TargetTransactions(response.body)) = 2
    /\ \E i, j \in TargetTransactions(response.body) :
          parseInt(response.body.latest_receipt_info[i].expires_date_ms)
             < parseInt(response.body.latest_receipt_info[j].expires_date_ms)

(* the index of the transaction with T2, and T2 *)
LaterIndex ==
    CHOOSE j \in TargetTransactions(response.body) :
        \A i \in TargetTransactions(response.body) :
            parseInt(response.body.latest_receipt_info[i].expires_date_ms)
               <= parseInt(response.body.latest_receipt_info[j].expires_date_ms)

T2 == parseInt(response.body.latest_receipt_info[LaterIndex].expires_date_ms)

(* the verdict names the T2 transaction as the active subscription *)
SelectedIsLater ==
    /\ IsVerdict(res.body) /\ res.body.isValid
    /\ Kind(res.body.subscriptionInfo) = "activeSubscription"
    /\ res.body.subscriptionInfo.expiresDate = T2
    /\ res.body.subscriptionInfo.transactionId
          = response.body.latest_receipt_info[LaterIndex].transaction_id

----------------------------------------------------------------------------
(* C1: a request issues at most 2 upstream calls; when production answers  *)
(* 21007 exactly one more call, to sandbox, is made, also when that        *)
(* sandbox call fails.                                                     *)
C1_AtMostTwoCalls ==
    /\ Len(calls) <= 2
    /\ (Done /\ results # <<>> /\ results[1].status = StatusSandboxReceipt)
          => (Len(calls) = 2 /\ calls[2] = SANDBOX_URL)

(* C2: the first call goes to production, a call is issued only when the   *)
(* one before it has completed, every later call goes to sandbox and only  *)
(* after production failed or answered 21007; after any other production   *)
(* answer no further call is made and the environment is "production".     *)
C2_SandboxOnlyAfterFailureOrReroute ==
    /\ Len(calls) - Len(results) \in {0, 1}
    /\ (calls # <<>> => calls[1] = PRODUCTION_URL)
    /\ \A i \in 2..Len(calls) :
          /\ calls[i] = SANDBOX_URL
          /\ Len(results) >= i - 1
          /\ (Failed(results[1]) \/ results[1].status = StatusSandboxReceipt)
    /\ (results # <<>> /\ ~Failed(results[1]) /\ results[1].status # StatusSandboxReceipt)
          => /\ Len(calls) = 1
             /\ environment = "production"
             /\ (FinalVerdict => res.body.environment = "production")

C2_Witness ==
    /\ Done /\ Len(results) = 1
    /\ ~Failed(results[1]) /\ results[1].status = 21010
    /\ environment = "production"

(* C3: a verdict with isValid = true carries a subscriptionInfo that is    *)
(* not null, and a verdict without one has isValid = false.                *)
C3_ValidCarriesInfo ==
    (res.sent > 0 /\ IsVerdict(res.body)) =>
        /\ res.body.isValid =>
              ("subscriptionInfo" \in DOMAIN res.body /\ ~IsNull(res.body.subscriptionInfo))
        /\ ("subscriptionInfo" \notin DOMAIN res.body \/ IsNull(res.body.subscriptionInfo))
              => ~res.body.isValid

C3_Witness ==
    /\ FinalVerdict /\ res.body.isValid
    /\ Kind(res.body.subscriptionInfo) = "pastPurchase"

(* C4: a POST whose receipt is missing or empty, or whose bundle id is not *)
(* the configured one, gets status 400 with isValid = false and no         *)
(* upstream call.                                                          *)
C4_BadInputIs400 ==
    (/\ Done /\ req.method = "POST"
     /\ (Falsy(req.body.receiptData) \/ req.body.bundleId # BUNDLE_ID))
        => /\ res.statusCode = 400
           /\ IsVerdict(res.body) /\ ~res.body.isValid
           /\ calls = <<>>

BothFailed == Len(results) = 2 /\ Failed(results[1]) /\ Failed(results[2])

(* C5: the handler ends, having sent exactly one response, for a POST a    *)
(* verdict; when the production and the sandbox attempt both fail the      *)
(* verdict has isValid = false, an error and no environment.               *)
C5_EndsWithOneVerdict ==
    /\ <>Done
    /\ [](res.sent <= 1)
    /\ [](Done => res.sent = 1)
    /\ []((Done /\ req.method = "POST") => IsVerdict(res.body))
    /\ []((Done /\ BothFailed) =>
            /\ IsVerdict(res.body) /\ ~res.body.isValid
            /\ "error" \in DOMAIN res.body
            /\ "environment" \notin DOMAIN res.body)

C5_Witness == Done /\ BothFailed /\ res.sent = 1

NothingFound ==
    /\ FinalVerdict /\ Adopted
    /\ response.body.status = 0
    /\ bundleMatches(response.body)
    /\ ~ActiveTransaction(response.body)
    /\ ~TargetPurchase(response.body)
    /\ ~ActiveRenewal(response.body)

(* C6: with status 0, a matching bundle id and nothing found by methods    *)
(* a, b and c, a sandbox verdict is valid by the sandbox fallback and a    *)
(* production verdict is invalid with subscriptionInfo null; a production  *)
(* verdict is never valid by pending renewal or sandbox fallback.          *)
C6_LeniencyIsSandboxOnly ==
    /\ (NothingFound /\ res.body.environment = "sandbox")
          => /\ res.body.isValid
             /\ Kind(res.body.subscriptionInfo) = "sandboxFallback"
             /\ res.body.subscriptionInfo.productId = PRODUCT_ID
    /\ (NothingFound /\ res.body.environment = "production")
          => /\ ~res.body.isValid
             /\ IsNull(res.body.subscriptionInfo)
    /\ (FinalVerdict /\ res.body.environment = "production" /\ res.body.isValid)
          => Kind(res.body.subscriptionInfo) \in {"activeSubscription", "pastPurchase"}

C6_Witness ==
    /\ NothingFound /\ res.body.environment = "sandbox"
    /\ response.body.hasPending /\ Len(response.body.pending_renewal_info) > 0

AllUnreachable == \A i \in 1..Len(results) : results[i].kind = "unreachable"
AllTimedOut == \A i \in 1..Len(results) : TimedOut(results[i])

(* C8: status 408 when both upstream attempts time out, 502 when a network *)
(* failure keeps the handler from reaching upstream, 500 only for an       *)
(* unexpected internal failure, 200 for every other outcome after input    *)
(* validation.                                                             *)
C8_StatusTellsCategory ==
    (Done /\ results # <<>>) =>
        /\ (Failed(results[Len(results)]) /\ AllTimedOut) => res.statusCode = 408
        /\ (Failed(results[Len(results)]) /\ AllUnreachable) => res.statusCode = 502
        /\ Adopted => res.statusCode = 200

(* C9: an adopted status 21006 gives isValid = false, expired = true and   *)
(* status 21006 whatever the receipt holds and whatever the environment;   *)
(* every adopted non-zero status gives isValid = false with that status.   *)
C9_NonZeroStatusIsInvalid ==
    (Done /\ Adopted /\ response.body.status # 0) =>
        /\ IsVerdict(res.body) /\ ~res.body.isValid
        /\ "status" \in DOMAIN res.body
        /\ res.body.status = response.body.status
        /\ res.body.status = results[Len(results)].status
        /\ (response.body.status = StatusExpired)
              = ("expired" \in DOMAIN res.body /\ res.body.expired)
        /\ ~isValidSubscription /\ IsNull(subscriptionInfo)

C9_Witness ==
    /\ Done /\ Adopted
    /\ response.body.status = StatusExpired
    /\ environment = "sandbox"
    /\ bundleMatches(response.body) /\ TargetPurchase(response.body)
    /\ res.body.expired

(* C10: in sandbox, with status 0, a matching bundle id and nothing found  *)
(* by methods a and b, a renewal record of the product with                *)
(* autoRenewStatus "1" at any position gives a valid verdict of kind       *)
(* pendingRenewal, not sandboxFallback.                                    *)
C10_RenewalAtAnyPosition ==
    (/\ FinalVerdict /\ Adopted
     /\ res.body.environment = "sandbox"
     /\ response.body.status = 0
     /\ bundleMatches(response.body)
     /\ ~ActiveTransaction(response.body)
     /\ ~TargetPurchase(response.body)
     /\ ActiveRenewal(response.body))
        => /\ res.body.isValid
           /\ Kind(res.body.subscriptionInfo) = "pendingRenewal"
           /\ res.body.subscriptionInfo.isPending
           /\ res.body.subscriptionInfo.autoRenewStatus = "1"


====
